---- MODULE Spec2Model ----
(***************************************************************************)
(* Model of the rotation-proxy data proxy: the flattened-stream trade       *)
(* extractor parseTradesFromPdfText, the /congress source chains and the    *)
(* /congress filing-index handlers with their concurrent per-filing         *)
(* fetches.                                                                 *)
(*                                                                          *)
(* Strings are sequences of one-character strings, so that concatenation,   *)
(* case folding, substring search and the regular expressions of the source *)
(* are computed and not assumed.  A text is a sequence of lines, a line a   *)
(* non-empty sequence of tokens, a token a non-empty string without white   *)
(* space; tokens of one line are separated by one space, lines by one       *)
(* newline.  Every token of the vocabulary is either a whole parenthesised  *)
(* or bracketed code, or contains no parenthesis or bracket, and only       *)
(* amount tokens contain "$": on such texts each regular expression of      *)
(* the source matches whole tokens, which is how it is defined below.       *)
(***************************************************************************)
EXTENDS Integers, Sequences, FiniteSets, TLC

VARIABLES
    text,       \* parseTradesFromPdfText: the argument `text`
    parsed,     \* parseTradesFromPdfText: the returned array
    ppc,        \* "ready" before the call, "done" after it
    handler,    \* /congress source chains: which handler serves the request
    cpc,        \* its position: "idle", "loop", "scrape", "house", "senate", "done"
    attempt,    \* apiAttempts loop: index of the next attempt
    calls,      \* the fetches issued so far, in order, with the batch each yielded
    results,    \* Stock Watcher handler: the array `results`
    cresp,      \* the response sent, NoResponse before
    fhandler,   \* /congress over the filing index: "pdf" or "xml" handler
    fpc,        \* its position: "idle", "index", "fetch", "done"
    fyear,      \* index of the next year of [2026, 2025] to fetch
    filings,    \* the array `filings`
    detail,     \* what the detail fetch of each filing of the batch brings
    pending,    \* the filings of the batch whose async function has not ended
    allTrades,  \* the array `allTrades` (`trades` in the xml handler)
    filingsMeta,\* the array `filingsMeta`
    fresp,      \* the response sent, NoResponse before
    ihandler,   \* /insiders: "openinsider", "parsed" or "edgar" handler
    ipc,        \* its position: "idle", "fetch", "done"
    itasks,     \* edgar: the fetches under way and how each ended
    irows,      \* the array `rows` of the screener handlers
    itrades,    \* the array `trades` (`allTrades` in the edgar handler)
    iresp,      \* the response sent, NoResponse before
    feedCache,  \* RSS tracker: the module-level object `feedCache`
    now,        \* Date.now(), in units of 150000 ms
    freq        \* the requests to /api/feeds and /api/narratives under way

parseVars == <<text, parsed, ppc>>
chainVars == <<handler, cpc, attempt, calls, results, cresp>>
filingVars == <<fhandler, fpc, fyear, filings, detail, pending, allTrades,
                filingsMeta, fresp>>
insiderVars == <<ihandler, ipc, itasks, irows, itrades, iresp>>
feedVars == <<feedCache, now, freq>>
vars == <<parseVars, chainVars, filingVars, insiderVars, feedVars>>

\* the variables of the other parts
exceptParse   == <<chainVars, filingVars, insiderVars, feedVars>>
exceptChain   == <<parseVars, filingVars, insiderVars, feedVars>>
exceptFiling  == <<parseVars, chainVars, insiderVars, feedVars>>
exceptInsider == <<parseVars, chainVars, filingVars, feedVars>>
exceptFeed    == <<parseVars, chainVars, filingVars, insiderVars>>

----------------------------------------------------------------------------
(* Characters and strings *)

UpperSeq == <<"A","B","C","D","E","F","G","H","I","J","K","L","M",
              "N","O","P","Q","R","S","T","U","V","W","X","Y","Z">>
LowerSeq == <<"a","b","c","d","e","f","g","h","i","j","k","l","m",
              "n","o","p","q","r","s","t","u","v","w","x","y","z">>
Upper == {UpperSeq[i] : i \in DOMAIN UpperSeq}
Lower == {LowerSeq[i] : i \in DOMAIN LowerSeq}
Digit == {"0","1","2","3","4","5","6","7","8","9"}

ToUpperChar(c) ==
    IF c \in Lower THEN UpperSeq[CHOOSE i \in DOMAIN LowerSeq : LowerSeq[i] = c] ELSE c
ToLowerChar(c) ==
    IF c \in Upper THEN LowerSeq[CHOOSE i \in DOMAIN UpperSeq : UpperSeq[i] = c] ELSE c

\* String.prototype.toUpperCase / toLowerCase
toUpperCase(s) == [i \in DOMAIN s |-> ToUpperChar(s[i])]
toLowerCase(s) == [i \in DOMAIN s |-> ToLowerChar(s[i])]

\* String.prototype.startsWith / includes
startsWith(s, p) == Len(s) >= Len(p) /\ SubSeq(s, 1, Len(p)) = p
includes(s, sub) ==
    \E i \in 1..(Len(s) - Len(sub) + 1) : SubSeq(s, i, i + Len(sub) - 1) = sub

RECURSIVE Flatten(_)
\* the tokens of a sequence of lines, in order (lines.join(' '), text.replace(/\n/g,' '))
Flatten(ls) == IF ls = <<>> THEN <<>> ELSE Head(ls) \o Flatten(Tail(ls))

RECURSIVE JoinSp(_)
\* the string of a token sequence: the tokens joined by single spaces
JoinSp(toks) ==
    IF toks = <<>> THEN <<>>
    ELSE IF Len(toks) = 1 THEN toks[1]
    ELSE toks[1] \o <<" ">> \o JoinSp(Tail(toks))

\* String.prototype.length of a line or of a run of tokens
StrLen(toks) == Len(JoinSp(toks))

Min(a, b) == IF a < b THEN a ELSE b

----------------------------------------------------------------------------
(* Literals of the source *)

Purchase == <<"P","u","r","c","h","a","s","e">>
Sale     == <<"S","a","l","e">>
Exchange == <<"E","x","c","h","a","n","g","e">>
Unknown  == <<"U","n","k","n","o","w","n">>
Sentinel == <<"?">>
PurchaseSale == Purchase \o <<"/">> \o Sale

\* src/server.js:98
Denylist == { <<"S","T">>, <<"O","T">>, <<"O","P">>, <<"M","F">>, <<"D","C">>,
              <<"S","P">>, <<"J","T">>, <<"T","R">>, <<"I","R","A">>,
              <<"J","A">>, <<"D","E","P">> }

\* src/server.js:49, the alternatives of the noise-line expression
NoisePrefixes ==
    { <<"I","D">>, <<"O","w","n","e","r">>, <<"A","s","s","e","t">>,
      <<"T","r","a","n","s","a","c","t","i","o","n">>, <<"D","a","t","e">>,
      <<"N","o","t","i","f","i","c","a","t","i","o","n">>,
      <<"A","m","o","u","n","t">>, <<"C","a","p",".">>, <<"P","a","g","e">>,
      <<"F","i","l","i","n","g">>, <<"C","l","e","r","k">>,
      <<"P","E","R","I","O","D","I","C">>, <<"H","o","n",".">>,
      <<"N","a","m","e",":">>, <<"S","t","a","t","u","s",":">>,
      <<"S","t","a","t","e">> }

----------------------------------------------------------------------------
(* Token classes: what each regular expression of parseTradesFromPdfText    *)
(* matches on one token.                                                    *)

AllIn(s, set) == \A i \in DOMAIN s : s[i] \in set
Inner(t) == SubSeq(t, 2, Len(t) - 1)

Wrapped(t, open, close, letters) ==
    /\ Len(t) >= 3 /\ Len(t) <= 7
    /\ t[1] = open /\ t[Len(t)] = close
    /\ AllIn(Inner(t), letters)

\* /\(([A-Z]{1,5})\)/, case-sensitive (src/server.js:52)
IsParenUpper(t) == Wrapped(t, "(", ")", Upper)
\* /\[([A-Z]{1,5})\](?!ST|OT|AB|OP|MF)/ (src/server.js:53): the look-ahead
\* reads what follows "]", a space or the end of the line, so it never fails
IsBracketUpper(t) == Wrapped(t, "[", "]", Upper)
\* /\(([A-Z]{1,5})\)/ under the i flag of blockPattern (src/server.js:90)
IsParenAnyCase(t) == Wrapped(t, "(", ")", Upper \cup Lower)

\* /\$[\d,]+/
IsAmountTok(t) == Len(t) >= 2 /\ t[1] = "$" /\ AllIn(Tail(t), Digit \cup {","})
IsDash(t) == t = <<"-">>
HasDollar(t) == \E i \in DOMAIN t : t[i] = "$"

\* /\b(Purchase|Sale)\b/i
IsTxWord(t) == toUpperCase(t) \in {toUpperCase(Purchase), toUpperCase(Sale)}
\* ([PS]), case-sensitive
IsTxLetter(t) == t \in {<<"P">>, <<"S">>}
\* /\b(Purchase|Sale|[PS])\b/ under the i flag
IsTxAnyCase(t) == IsTxWord(t) \/ toUpperCase(t) \in {<<"P">>, <<"S">>}
\* \d and \d{2}\/\d{2} at the start of the token after the transaction code
StartsDigit(t) == t[1] \in Digit
StartsDate(t) ==
    /\ Len(t) >= 5
    /\ t[1] \in Digit /\ t[2] \in Digit /\ t[3] = "/" /\ t[4] \in Digit /\ t[5] \in Digit

\* the first index in lo..hi of toks that satisfies P, 0 when there is none
FirstIdx(toks, lo, hi, P(_)) ==
    LET S == {k \in lo..hi : P(toks[k])}
    IN IF S = {} THEN 0 ELSE CHOOSE k \in S : \A j \in S : k <= j

\* amountPattern, /\$[\d,]+(?:\s*-\s*\$[\d,]+)?/, matched from token m on:
\* the amount and, when a dash and a second amount follow, the range
AmountAt(toks, m) ==
    IF m + 2 <= Len(toks) /\ IsDash(toks[m+1]) /\ IsAmountTok(toks[m+2])
    THEN SubSeq(toks, m, m + 2)
    ELSE <<toks[m]>>

\* String.prototype.match(amountPattern): the matched string, <<>> for null
AmountMatch(toks) ==
    LET m == FirstIdx(toks, 1, Len(toks), IsAmountTok)
    IN IF m = 0 THEN <<>> ELSE JoinSp(AmountAt(toks, m))

\* the noise-line test of Strategy 1
IsNoise(line) == \E p \in NoisePrefixes : startsWith(line[1], p)

\* tickerMatch of Strategy 1: the captured code, <<>> for null
TickerMatch(line) ==
    LET p == FirstIdx(line, 1, Len(line), IsParenUpper)
        b == FirstIdx(line, 1, Len(line), IsBracketUpper)
    IN IF p # 0 THEN Inner(line[p])
       ELSE IF b # 0 THEN Inner(line[b])
       ELSE <<>>

\* txMatch of Strategy 1: the captured word (txMatch[1]), <<>> for null
TxMatch(lines, i) ==
    LET line   == lines[i]
        search == Flatten(SubSeq(lines, i, Min(i + 3, Len(lines))))
        w      == FirstIdx(search, 1, Len(search), IsTxWord)
        mid    == {k \in 2..(Len(line) - 1) :
                     IsTxLetter(line[k]) /\ StartsDate(line[k+1])}
    IN IF w # 0 THEN search[w]
       ELSE IF Len(line) >= 2 /\ IsTxLetter(line[1]) /\ StartsDigit(line[2])
            THEN line[1]
       ELSE IF mid # {} THEN line[CHOOSE k \in mid : \A j \in mid : k <= j]
       ELSE <<>>

----------------------------------------------------------------------------
(* parseTradesFromPdfText, src/server.js:27-111 *)

\* the type a captured transaction word stands for in Strategy 1 (line 69)
TypeOfWord1(txWord) ==
    IF toUpperCase(txWord) = <<"P">> \/ startsWith(toUpperCase(txWord), <<"P">>)
    THEN Purchase ELSE Sale

\* the type a captured transaction word stands for in Strategy 2 (line 95)
TypeOfWord2(txWord) ==
    IF toUpperCase(txWord) \in {<<"P">>, toUpperCase(Purchase)}
    THEN Purchase ELSE Sale

\* the state of the line scan before its first line (lines 28, 38-40)
Scan0 == [ticker |-> <<>>, asset |-> <<>>, type |-> <<>>, trades |-> <<>>]

\* an iteration that forgets the ticker when it pushes a trade
ScanLineReset(st, lines, i) ==
    LET line     == lines[i]
        next     == IF i < Len(lines) THEN lines[i+1] ELSE <<>>
        combined == line \o next
        tm       == TickerMatch(line)
        ticker1  == IF tm # <<>> THEN tm ELSE st.ticker
        asset1   == IF tm # <<>> THEN line ELSE st.asset
        tx       == TxMatch(lines, i)
        type1    == IF tx # <<>> /\ ticker1 # <<>> THEN TypeOfWord1(tx) ELSE st.type
        am       == AmountMatch(combined)
    IN IF StrLen(line) < 3 \/ IsNoise(line) THEN st
       ELSE IF ticker1 # <<>> /\ type1 # <<>> /\ am # <<>>
            THEN [ticker |-> <<>>, asset |-> asset1, type |-> <<>>,
                  trades |-> Append(st.trades,
                     [ticker |-> ticker1, asset |-> asset1, type |-> type1, amount |-> am])]
            ELSE [ticker |-> ticker1, asset |-> asset1, type |-> type1,
                  trades |-> st.trades]

\* one iteration of the loop of Strategy 1 on line i (lines 42-85)
ScanLine(st, lines, i) ==
    LET line     == lines[i]
        next     == IF i < Len(lines) THEN lines[i+1] ELSE <<>>
        combined == line \o next
        tm       == TickerMatch(line)
        ticker1  == IF tm # <<>> THEN tm ELSE st.ticker
        asset1   == IF tm # <<>> THEN line ELSE st.asset
        tx       == TxMatch(lines, i)
        type1    == IF tx # <<>> /\ ticker1 # <<>> THEN TypeOfWord1(tx) ELSE st.type
        am       == AmountMatch(combined)
    IN IF StrLen(line) < 3 \/ IsNoise(line) THEN st
       ELSE IF ticker1 # <<>> /\ type1 # <<>> /\ am # <<>>
            THEN [ticker |-> ticker1, asset |-> asset1, type |-> <<>>,
                  trades |-> Append(st.trades,
                     [ticker |-> ticker1, asset |-> asset1, type |-> type1, amount |-> am])]
            ELSE [ticker |-> ticker1, asset |-> asset1, type |-> type1,
                  trades |-> st.trades]

RECURSIVE ScanFrom(_, _, _)
ScanFrom(st, lines, i) ==
    IF i > Len(lines) THEN st ELSE ScanFrom(ScanLine(st, lines, i), lines, i + 1)

\* Strategy 1: the trades pushed by the line scan
Strategy1(lines) == ScanFrom(Scan0, lines, 1).trades

\* the characters between token a and token b of F, a < b
Gap(F, a, b) == IF b = a + 1 THEN 1 ELSE StrLen(SubSeq(F, a + 1, b - 1)) + 2

\* blockPattern anchored at the parenthesised token k (line 90): the first "$"
\* after it must start an amount, and a transaction word must stand between
\* the two, at most 300 characters after the code and at most 100 before the
\* amount.  [tx, amt], the lazy quantifiers taking the first such word; tx = 0
\* when the pattern does not match at k.
BlockAt(F, k) ==
    LET m  == FirstIdx(F, k + 1, Len(F), HasDollar)
        js == IF m = 0 THEN {}
              ELSE {j \in (k+1)..(m-1) :
                      IsTxAnyCase(F[j]) /\ Gap(F, k, j) <= 300 /\ Gap(F, j, m) <= 100}
    IN IF m = 0 \/ js = {} THEN [tx |-> 0, amt |-> 0]
       ELSE IF ~IsAmountTok(F[m]) THEN [tx |-> 0, amt |-> 0]
       ELSE [tx |-> CHOOSE j \in js : \A h \in js : j <= h, amt |-> m]

RECURSIVE BlockScan(_, _)
\* the while loop over blockPattern.exec from token pos on (lines 92-100)
BlockScan(F, pos) ==
    LET ks == {k \in pos..Len(F) : IsParenAnyCase(F[k]) /\ BlockAt(F, k).tx # 0}
    IN IF ks = {} THEN <<>>
       ELSE LET k      == CHOOSE x \in ks : \A y \in ks : x <= y
                b      == BlockAt(F, k)
                amt    == AmountAt(F, b.amt)
                ticker == Inner(F[k])
                rest   == BlockScan(F, b.amt + Len(amt))
            IN IF ticker \in Denylist THEN rest
               ELSE <<[ticker |-> ticker, asset |-> <<>>,
                       type |-> TypeOfWord2(F[b.tx]), amount |-> JoinSp(amt)]>> \o rest

\* Strategy 2: the trades pushed by the block scan of the whole text
Strategy2(lines) == BlockScan(Flatten(lines), 1)

\* the key of the seen set (line 106)
DedupKeyNoAmount(t) == t.ticker \o t.type
DedupKey(t) == t.ticker \o t.type \o t.amount

RECURSIVE DedupFrom(_, _, _)
DedupFrom(trades, i, seen) ==
    IF i > Len(trades) THEN <<>>
    ELSE LET t == trades[i]
         IN IF t.ticker = <<>> \/ Len(t.ticker) < 1 \/ Len(t.ticker) > 5
            THEN DedupFrom(trades, i + 1, seen)
            ELSE IF DedupKey(t) \in seen THEN DedupFrom(trades, i + 1, seen)
            ELSE <<t>> \o DedupFrom(trades, i + 1, seen \cup {DedupKey(t)})

\* a filter with the test of `seen` inverted: it keeps the repeats
KeepRepeats(trades) ==
    LET rep == {i \in DOMAIN trades :
                  \E j \in 1..(i - 1) : DedupKey(trades[j]) = DedupKey(trades[i])}
        F[k \in 0..Len(trades)] ==
            IF k = 0 THEN <<>>
            ELSE IF k \in rep THEN Append(F[k-1], trades[k]) ELSE F[k-1]
    IN F[Len(trades)]

\* the filter that closes parseTradesFromPdfText (lines 102-110)
KeepAll(trades) == trades
Dedup(trades) == DedupFrom(trades, 1, {})

\* the array the two strategies fill before the filter
RawTrades(lines) == Strategy1(lines) \o Strategy2(lines)

parseTradesFromPdfText(lines) == Dedup(RawTrades(lines))

----------------------------------------------------------------------------
(* The texts parseTradesFromPdfText is applied to *)

\* the largest number of tokens of an enumerated text
MaxTokens == 4

TokWAT   == <<"(","W","A","T",")">>
TokIRA   == <<"(","I","R","A",")">>
TokLower == <<"(","a","b","c",")">>
TokST    == <<"[","S","T","]">>
TokP     == <<"P">>
TokDate  == <<"1","2","/","0","8","/","2","0","2","5">>
TokDate2 == <<"0","1","/","0","1","/","2","0","2","6">>
TokAmt1  == <<"$","1",",","0","0","1">>
TokAmt2  == <<"$","1","5",",","0","0","0">>
TokAmt3  == <<"$","1",",","0","0","0">>
TokDash  == <<"-">>
TokOwner == <<"O","w","n","e","r">>

Vocabulary ==
    {TokWAT, TokIRA, TokLower, TokST, TokP, Sale, TokDate, TokAmt1, TokAmt2,
     TokDash, TokOwner}

\* "(WAT) [ST] P 12/08/2025 01/01/2026 $1,001 - $15,000"
LineWAT == <<TokWAT, TokST, TokP, TokDate, TokDate2, TokAmt1, TokDash, TokAmt2>>
\* "(IRA) P 01/01/2025 01/02/2025 $1,000"
LineIRA ==
    <<TokIRA, TokP, <<"0","1","/","0","1","/","2","0","2","5">>,
      <<"0","1","/","0","2","/","2","0","2","5">>, TokAmt3>>

\* the lines of the token sequence flat broken after the positions in breaks
SplitLines(flat, breaks) ==
    LET starts == {1} \cup {b + 1 : b \in breaks}
        n      == Cardinality(starts)
        nth(i) == CHOOSE x \in starts : Cardinality({y \in starts : y < x}) = i - 1
        end(i) == IF i = n THEN Len(flat) ELSE nth(i + 1) - 1
    IN [i \in 1..n |-> SubSeq(flat, nth(i), end(i))]

ParseInit ==
    /\ \/ text \in {<<LineWAT>>, <<LineIRA>>}
       \/ \E n \in 1..MaxTokens : \E flat \in [1..n -> Vocabulary] :
            \E breaks \in SUBSET (1..(n - 1)) : text = SplitLines(flat, breaks)
    /\ parsed = <<>>
    /\ ppc = "ready"

\* trades = parseTradesFromPdfText(text, filing.name)
ParseCall ==
    /\ ppc = "ready"
    /\ parsed' = parseTradesFromPdfText(text)
    /\ ppc' = "done"
    /\ UNCHANGED <<text, exceptParse>>

ParseNext == ParseCall

----------------------------------------------------------------------------
(* The /congress source chains: the apiAttempts loop with its HTML scraping *)
(* fallback (src/unnamed/part_001:251-434) and the House + Senate Stock     *)
(* Watcher handler (src/server.js:335-432).                                 *)

\* the largest number of records of an upstream payload
MaxBatch == 2

\* Upstream records: ticker and type as the payload spells them (<<>> for an
\* absent field), date as a day number, day 0 lying before every cutoff.
UpRecords ==
    { [ticker |-> <<"A","A","P","L">>, type |-> <<"b","u","y">>, date |-> 2],
      [ticker |-> <<>>,                type |-> <<"g","i","f","t">>, date |-> 1],
      [ticker |-> <<"-","-">>,         type |-> <<"P","u","r","c","h","a","s","e">>, date |-> 1],
      [ticker |-> <<"A","A","P","L">>, type |-> <<"p","u","r","c","h","a","s","e">>, date |-> 0] }

\* what one fetch can bring: a thrown error or timeout, a non-2xx status, a
\* body that is no array and holds no list, or a list of records
Payloads == UNION {[1..n -> UpRecords] : n \in 0..MaxBatch}
Outcomes ==
    {[kind |-> "throw", data |-> <<>>], [kind |-> "notok", data |-> <<>>],
     [kind |-> "shape", data |-> <<>>]}
    \cup {[kind |-> "list", data |-> d] : d \in Payloads}

\* new Date(t.transaction_date) > cutoff, and its negation in the watchers
IsRecentDate(d) == d > 0

\* x || '?'
OrSentinel(x) == IF x = <<>> THEN Sentinel ELSE x

\* normalizeTransaction(type), src/unnamed/part_001:510-516
normalizeTransaction(type) ==
    LET t == toLowerCase(type)
    IN IF type = <<>> THEN Unknown
       ELSE IF includes(t, <<"b","u","y">>) \/ includes(t, toLowerCase(Purchase)) THEN Purchase
       ELSE IF includes(t, <<"s","e","l","l">>) \/ includes(t, toLowerCase(Sale)) THEN Sale
       ELSE type

\* (t.type || '').toLowerCase().includes('purchase') ? 'Purchase' : 'Sale'
PurchaseOrSale(type) ==
    IF includes(toLowerCase(type), toLowerCase(Purchase)) THEN Purchase ELSE Sale

\* (t.ticker || '').replace(/\$/g, '').trim()
CleanTicker(tk) ==
    LET noDollar == SelectSeq(tk, LAMBDA c : c # "$")
        keep     == {i \in DOMAIN noDollar : noDollar[i] # " "}
    IN IF keep = {} THEN <<>>
       ELSE SubSeq(noDollar,
                   CHOOSE i \in keep : \A j \in keep : i <= j,
                   CHOOSE i \in keep : \A j \in keep : i >= j)

\* a slice that cuts nothing
SliceNothing(s, n) == s

\* Array.prototype.slice(0, n)
Slice(s, n) == SubSeq(s, 1, Min(n, Len(s)))

\* the apiAttempts list, in priority order (part_001:254-261)
Attempts ==
    << [type |-> "json",   source |-> "Capitol Trades"],
       [type |-> "house",  source |-> "House Stock Watcher"],
       [type |-> "senate", source |-> "Senate Stock Watcher"] >>

\* the first 60 recent records of a Stock Watcher list (part_001:281, 307)
AttemptSlice == 60

\* the trades one attempt maps out of what its fetch brought (part_001:276-343)
AttemptBatch(type, o) ==
    IF o.kind \in {"throw", "notok"} THEN <<>>
    ELSE IF type = "json"
    THEN [i \in DOMAIN o.data |->
            [Ticker |-> OrSentinel(o.data[i].ticker),
             Transaction |-> normalizeTransaction(o.data[i].type),
             Date |-> o.data[i].date, Chamber |-> "?"]]
    ELSE IF o.kind = "shape" THEN <<>>
    ELSE LET recent == SelectSeq(o.data, LAMBDA t : IsRecentDate(t.date))
             kept   == Slice(recent, AttemptSlice)
         IN [i \in DOMAIN kept |->
               [Ticker |-> OrSentinel(kept[i].ticker),
                Transaction |-> PurchaseOrSale(kept[i].type),
                Date |-> kept[i].date,
                Chamber |-> IF type = "house" THEN "House" ELSE "Senate"]]

\* `tried` is the list of sources a body names as attempted; the bodies of
\* these handlers carry error, note or debugging fields and no such list
NoResponse ==
    [status |-> 0, success |-> FALSE, source |-> "", count |-> 0,
     trades |-> <<>>, error |-> "", tried |-> <<>>]

\* res.json({ success: true, count, source, trades })
Success(source, count, trades) ==
    [status |-> 200, success |-> TRUE, source |-> source, count |-> count,
     trades |-> trades, error |-> "", tried |-> <<>>]

\* res.status(code).json({ error })
Failure(code, error) ==
    [status |-> code, success |-> FALSE, source |-> "", count |-> 0,
     trades |-> <<>>, error |-> error, tried |-> <<>>]

ChainIdle ==
    /\ handler = "none" /\ cpc = "idle" /\ attempt = 1
    /\ calls = <<>> /\ results = <<>> /\ cresp = NoResponse

ChainInit ==
    /\ handler \in {"attempts", "watchers"}
    /\ cpc = IF handler = "attempts" THEN "loop" ELSE "house"
    /\ attempt = 1
    /\ calls = <<>> /\ results = <<>> /\ cresp = NoResponse

\* if (trades.length > 0) return res.json(...) (part_001:297, 323, 345)
CommitsOnSecondRecord(batch) == Len(batch) > 1
Commits(batch) == Len(batch) > 0

\* a loop that never sees the end of the list
AfterAttemptStays(a) == "loop"

\* where the handler stands after attempt a yielded nothing
AfterAttemptLast(a) == IF a >= Len(Attempts) THEN "scrape" ELSE "loop"

\* a loop that asks the source that failed once more
RetryAttempt(a) == a

\* the attempt the for loop turns to after attempt a
NextAttempt(a) == a + 1

\* one iteration of `for (const attempt of apiAttempts)` (part_001:263-354)
TryAttempt ==
    /\ handler = "attempts" /\ cpc = "loop"
    /\ attempt \in DOMAIN Attempts
    /\ \E o \in Outcomes :
         LET a     == Attempts[attempt]
             batch == AttemptBatch(a.type, o)
         IN /\ calls' = Append(calls, [source |-> a.source, kind |-> o.kind, batch |-> batch])
            /\ IF Commits(batch)
               THEN /\ cresp' = Success(a.source, Len(batch), batch)
                    /\ cpc' = "done"
                    /\ UNCHANGED attempt
               ELSE /\ cpc' = AfterAttemptLast(attempt)
                    /\ attempt' = NextAttempt(attempt)
                    /\ UNCHANGED cresp
    /\ UNCHANGED <<handler, results, exceptChain>>

\* the scraping fallback after the loop (part_001:356-428): the page cannot
\* be fetched, holds no list of trades that maps, or holds one
Scrape ==
    /\ handler = "attempts" /\ cpc = "scrape"
    /\ \E o \in Outcomes :
         LET found == o.kind = "list" /\ o.data # <<>>
             batch == IF found THEN AttemptBatch("json", o) ELSE <<>>
         IN /\ calls' = Append(calls, [source |-> "Capitol Trades (HTML)",
                                       kind |-> o.kind, batch |-> batch])
            /\ cresp' = IF o.kind = "throw" THEN Failure(500, "All sources failed")
                        ELSE IF found
                        THEN Success("Capitol Trades (HTML)", Len(batch), batch)
                        ELSE Failure(500, "Could not parse Capitol Trades")
    /\ cpc' = "done"
    /\ UNCHANGED <<handler, attempt, results, exceptChain>>

\* the first 80 records after the sort (src/server.js:419)
WatcherSlice == 80

\* the records one Stock Watcher fetch adds to `results` (src/server.js:345-373,
\* 382-410)
WatcherBatch(chamber, o) ==
    IF o.kind # "list" THEN <<>>
    ELSE LET ok(t) == /\ IsRecentDate(t.date)
                      /\ CleanTicker(t.ticker) # <<>>
                      /\ CleanTicker(t.ticker) # <<"N","/","A">>
                      /\ Len(CleanTicker(t.ticker)) <= 6
             kept  == SelectSeq(o.data, ok)
         IN [i \in DOMAIN kept |->
               [Ticker |-> CleanTicker(kept[i].ticker),
                Transaction |-> PurchaseOrSale(kept[i].type),
                Date |-> kept[i].date, Chamber |-> chamber]]

RECURSIVE InsertByDate(_, _)
\* x placed behind every record of the sorted s whose date is not older
InsertByDate(x, s) ==
    IF s = <<>> THEN <<x>>
    ELSE IF Head(s).Date >= x.Date THEN <<Head(s)>> \o InsertByDate(x, Tail(s))
    ELSE <<x>> \o s

RECURSIVE SortByDateDesc(_)
\* arr.sort((a, b) => new Date(b.Date) - new Date(a.Date)): newest first,
\* records of one date in the order they had (the sort is stable)
SortByDateDesc(s) ==
    IF s = <<>> THEN <<>>
    ELSE InsertByDate(s[Len(s)], SortByDateDesc(SubSeq(s, 1, Len(s) - 1)))

\* the fetch of House Stock Watcher (src/server.js:340-374)
FetchHouse ==
    /\ handler = "watchers" /\ cpc = "house"
    /\ \E o \in Outcomes :
         LET batch == WatcherBatch("House", o)
         IN /\ calls' = Append(calls, [source |-> "House Stock Watcher",
                                       kind |-> o.kind, batch |-> batch])
            /\ results' = results \o batch
    /\ cpc' = "senate"
    /\ UNCHANGED <<handler, attempt, cresp, exceptChain>>

\* the fetch of Senate Stock Watcher and the response (src/server.js:377-426)
FetchSenate ==
    /\ handler = "watchers" /\ cpc = "senate"
    /\ \E o \in Outcomes :
         LET batch  == WatcherBatch("Senate", o)
             all    == results \o batch
             sorted == SortByDateDesc(all)
             recent == Slice(sorted, WatcherSlice)
         IN /\ calls' = Append(calls, [source |-> "Senate Stock Watcher",
                                       kind |-> o.kind, batch |-> batch])
            /\ results' = sorted
            /\ cresp' = IF all = <<>>
                        THEN Failure(404, "No trades found from any source")
                        ELSE Success("House Stock Watcher + Senate Stock Watcher",
                                     Len(recent), recent)
    /\ cpc' = "done"
    /\ UNCHANGED <<handler, attempt, exceptChain>>

ChainNext == TryAttempt \/ Scrape \/ FetchHouse \/ FetchSenate

----------------------------------------------------------------------------
(* GET /congress over the House filing index: the handler that parses each   *)
(* filing's PDF (src/server.js:114-222) and the handler that reads each      *)
(* filing's XML detail (src/server.js:542-616).  The index of each year is   *)
(* fetched in turn; the detail fetches of the batch run concurrently and     *)
(* their async functions end in any order.                                   *)

\* members of one year's index the model enumerates
MaxMembers == 2

\* filings.slice(0, 40): the batch limit, 40 in the source, scaled so that an
\* index within MaxMembers exceeds it
PdfBatch == 2
\* if (filings.length >= 60) break, scaled with PdfBatch
PdfEnough == 3
\* combined.slice(0, 100), scaled so that a batch's trades exceed it
PdfTrim == 3
\* filings.slice(0, 20), scaled as PdfBatch
XmlBatch == 2
\* if (filings.length >= 25) break, scaled with XmlBatch
XmlEnough == 3
\* trades.slice(0, 80), scaled as PdfTrim
XmlTrim == 3

BatchLimit(h) == IF h = "pdf" THEN PdfBatch ELSE XmlBatch
Enough(h)     == IF h = "pdf" THEN PdfEnough ELSE XmlEnough
Trim(h)       == IF h = "pdf" THEN PdfTrim ELSE XmlTrim

\* a <Member> of the index: whether it is a periodic transaction report, its
\* filing date (0: before the 90 day cutoff; all dates are valid dates), and
\* whether it carries a DocID
Members ==
    { [ptr |-> TRUE,  date |-> 1, docId |-> TRUE],
      [ptr |-> TRUE,  date |-> 2, docId |-> TRUE],
      [ptr |-> TRUE,  date |-> 1, docId |-> FALSE],
      [ptr |-> FALSE, date |-> 2, docId |-> TRUE],
      [ptr |-> TRUE,  date |-> 0, docId |-> TRUE] }

\* what the fetch of one year's index brings
IndexOutcomes ==
    { [kind |-> "throw", members |-> <<>>], [kind |-> "notok", members |-> <<>>] }
    \cup { [kind |-> "ok", members |-> m] :
             m \in UNION { [1..n -> Members] : n \in 0..MaxMembers } }

\* date && new Date(date).getTime() < cutoff
BeforeCutoff(d) == d = 0

\* members.forEach(m => { ... filings.push({ name, state, date, docId, year }) })
\* the k-th member of year y is named <<y, k>>
Qualifying(members, y) ==
    LET keep == {k \in DOMAIN members :
                    members[k].ptr /\ ~BeforeCutoff(members[k].date)}
        F[k \in 0..Len(members)] ==
            IF k = 0 THEN <<>>
            ELSE IF k \in keep
                 THEN Append(F[k-1], [name |-> <<y, k>>, date |-> members[k].date,
                                      docId |-> members[k].docId, year |-> y])
                 ELSE F[k-1]
    IN F[Len(members)]

\* a <Transaction> block of a filing's XML detail: the text of its tags
XmlBlock1 ==
    [ticker |-> <<"A","A","P","L">>, assetCode |-> <<>>, type |-> Purchase,
     amount |-> <<"$","1",",","0","0","1">>]
XmlBlock2 ==
    [ticker |-> <<>>, assetCode |-> <<"$","b","r","k",".","b"," ">>,
     type |-> <<"P">>, amount |-> <<>>]
XmlBlock3 ==
    [ticker |-> <<>>, assetCode |-> <<>>, type |-> <<>>, amount |-> <<>>]

\* texts of a filing's PDF
TextNone == << <<TokOwner>> >>
TextOne  == << <<TokWAT, TokP, TokAmt1>> >>
TextTwo  == << <<TokWAT, TokP, TokAmt1>>, <<TokWAT, Sale, TokAmt2>> >>

PdfTexts == { TextNone, TextOne, TextTwo }


\* what the detail fetch of one filing brings
DetailOutcomes(h) ==
    { [kind |-> "throw"], [kind |-> "notok"] }
    \cup IF h = "pdf"
         THEN { [kind |-> "text", text |-> t] : t \in PdfTexts }
         ELSE { [kind |-> "blocks", blocks |-> b] :
                  b \in { <<>>, <<XmlBlock1>>, <<XmlBlock2>>, <<XmlBlock3>>,
                          <<XmlBlock1, XmlBlock2>> } }

SeeFiling   == <<"S","e","e"," ","f","i","l","i","n","g">>
Undisclosed == <<"U","n","d","i","s","c","l","o","s","e","d">>

\* a placeholder that leaves the ticker empty
PlaceholderNoSentinel(filing) ==
    [Representative |-> filing.name, Ticker |-> <<>>, Amount |-> SeeFiling,
     Date |-> filing.date, Transaction |-> PurchaseSale]

\* the record pushed for a filing whose detail yields no trade
Placeholder(filing) ==
    [Representative |-> filing.name, Ticker |-> Sentinel, Amount |-> SeeFiling,
     Date |-> filing.date, Transaction |-> PurchaseSale]

\* trades.forEach(t => allTrades.push({ ... })) of the PDF handler
PdfRecords(filing, trades) ==
    [k \in DOMAIN trades |->
        [Representative |-> filing.name, Ticker |-> trades[k].ticker,
         Amount |-> trades[k].amount, Date |-> filing.date,
         Transaction |-> trades[k].type]]

\* txnBlocks.forEach(txn => trades.push({ ... })) of the XML handler
XmlRecords(filing, blocks) ==
    [k \in DOMAIN blocks |->
        [Representative |-> filing.name,
         Ticker |-> CleanTicker(OrSentinel(IF blocks[k].ticker # <<>>
                                           THEN blocks[k].ticker
                                           ELSE blocks[k].assetCode)),
         Amount |-> IF blocks[k].amount # <<>> THEN blocks[k].amount ELSE Undisclosed,
         Date |-> filing.date,
         Transaction |-> IF \/ includes(toLowerCase(blocks[k].type), toLowerCase(Purchase))
                            \/ blocks[k].type = <<"P">>
                         THEN Purchase ELSE Sale]]

\* an async function whose failure branches push the placeholder twice
PushedTwice(h, filing, o) ==
    IF h = "pdf"
    THEN LET trades == IF o.kind = "text" THEN parseTradesFromPdfText(o.text) ELSE <<>>
         IN IF Len(trades) = 0
            THEN [allTrades |-> <<>>,
                  filingsMeta |-> <<Placeholder(filing), Placeholder(filing)>>]
            ELSE [allTrades |-> PdfRecords(filing, trades), filingsMeta |-> <<>>]
    ELSE IF o.kind = "blocks" /\ Len(o.blocks) > 0
         THEN [allTrades |-> XmlRecords(filing, o.blocks), filingsMeta |-> <<>>]
         ELSE [allTrades |-> <<Placeholder(filing), Placeholder(filing)>>,
               filingsMeta |-> <<>>]

\* the same function, were the parsed trades followed by a placeholder
PushedBoth(h, filing, o) ==
    IF h = "pdf"
    THEN LET trades == IF o.kind = "text" THEN parseTradesFromPdfText(o.text) ELSE <<>>
         IN [allTrades |-> PdfRecords(filing, trades),
             filingsMeta |-> <<Placeholder(filing)>>]
    ELSE IF o.kind = "blocks" /\ Len(o.blocks) > 0
         THEN [allTrades |-> XmlRecords(filing, o.blocks), filingsMeta |-> <<>>]
         ELSE [allTrades |-> <<Placeholder(filing)>>, filingsMeta |-> <<>>]

\* the records the async function of one filing pushes when it ends, and the
\* array it pushes them to
Pushed(h, filing, o) ==
    IF h = "pdf"
    THEN LET trades == IF o.kind = "text" THEN parseTradesFromPdfText(o.text) ELSE <<>>
         IN IF Len(trades) = 0
            THEN [allTrades |-> <<>>, filingsMeta |-> <<Placeholder(filing)>>]
            ELSE [allTrades |-> PdfRecords(filing, trades), filingsMeta |-> <<>>]
    ELSE IF o.kind = "blocks" /\ Len(o.blocks) > 0
         THEN [allTrades |-> XmlRecords(filing, o.blocks), filingsMeta |-> <<>>]
         ELSE [allTrades |-> <<Placeholder(filing)>>, filingsMeta |-> <<>>]

\* the XML handler pushes the placeholder of a filing without DocID before
\* any fetch is awaited
RECURSIVE NoDocPlaceholders(_)
NoDocPlaceholders(batch) ==
    IF batch = <<>> THEN <<>>
    ELSE (IF Head(batch).docId THEN <<>> ELSE <<Placeholder(Head(batch))>>)
         \o NoDocPlaceholders(Tail(batch))

\* the filings of the batch whose detail is fetched
Fetched(h, batch) ==
    {i \in DOMAIN batch : h = "pdf" \/ batch[i].docId}

\* res.json({ success: true, count, withTickers, source, trades })
FilingSuccess(source, count, withTickers, trades) ==
    [status |-> 200, success |-> TRUE, source |-> source, count |-> count,
     withTickers |-> withTickers, trades |-> trades, error |-> ""]

FilingIdle ==
    /\ fhandler = "none" /\ fpc = "idle" /\ fyear = 1
    /\ filings = <<>> /\ detail = <<>> /\ pending = {}
    /\ allTrades = <<>> /\ filingsMeta = <<>> /\ fresp = NoResponse

FilingInit ==
    /\ fhandler \in {"pdf", "xml"} /\ fpc = "index" /\ fyear = 1
    /\ filings = <<>> /\ detail = <<>> /\ pending = {}
    /\ allTrades = <<>> /\ filingsMeta = <<>> /\ fresp = NoResponse

\* one turn of  for (const year of [2026, 2025])  and, after the last turn,
\* the code up to the await of Promise.all
FetchIndex ==
    /\ fpc = "index"
    /\ \E o \in IndexOutcomes :
          LET found == IF o.kind = "ok"
                       THEN filings \o Qualifying(o.members, fyear)
                       ELSE filings
              last  == fyear = 2 \/ (o.kind = "ok" /\ Len(found) >= Enough(fhandler))
              batch == Slice(found, BatchLimit(fhandler))
          IN IF o.kind = "throw"
             THEN /\ fresp' = Failure(500, "error")
                  /\ fpc' = "done"
                  /\ UNCHANGED <<fyear, filings, detail, pending, allTrades>>
             ELSE IF ~last
             THEN /\ fyear' = fyear + 1
                  /\ filings' = found
                  /\ UNCHANGED <<fpc, detail, pending, allTrades, fresp>>
             ELSE IF Len(found) = 0
             THEN /\ fresp' = Failure(404, "No PTR filings found")
                  /\ fpc' = "done"
                  /\ filings' = found
                  /\ UNCHANGED <<fyear, detail, pending, allTrades>>
             ELSE /\ filings' = found
                  /\ \E d \in [DOMAIN batch -> DetailOutcomes(fhandler)] :
                        /\ \A i \in DOMAIN batch \ Fetched(fhandler, batch) :
                              d[i] = [kind |-> "throw"]
                        /\ detail' = d
                  /\ pending' = Fetched(fhandler, batch)
                  /\ allTrades' = IF fhandler = "pdf" THEN <<>>
                                  ELSE NoDocPlaceholders(batch)
                  /\ fpc' = "fetch"
                  /\ UNCHANGED <<fyear, fresp>>
    /\ UNCHANGED <<fhandler, filingsMeta, exceptFiling>>

\* the async function of filing i of the batch ends
Complete ==
    /\ fpc = "fetch"
    /\ \E i \in pending :
          \E p \in {Pushed(fhandler, filings[i], detail[i])} :
             /\ allTrades' = allTrades \o p.allTrades
             /\ filingsMeta' = filingsMeta \o p.filingsMeta
             /\ pending' = pending \ {i}
    /\ UNCHANGED <<fhandler, fpc, fyear, filings, detail, fresp, exceptFiling>>

\* the response assembled from the arrays allTrades and filingsMeta
Assembled(h, trades, meta) ==
    LET combined == SortByDateDesc(trades \o meta)
    IN FilingSuccess(IF h = "pdf" THEN "US House PTR Filings (PDF parsed)"
                     ELSE "US House PTR Filings",
                     Len(combined), IF h = "pdf" THEN Len(trades) ELSE 0,
                     Slice(combined, Trim(h)))

\* Promise.all has resolved: combine, sort, answer
Respond ==
    /\ fpc = "fetch" /\ pending = {}
    /\ fresp' = Assembled(fhandler, allTrades, filingsMeta)
    /\ fpc' = "done"
    /\ UNCHANGED <<fhandler, fyear, filings, detail, pending, allTrades,
                   filingsMeta, exceptFiling>>

FilingNext == FetchIndex \/ Complete \/ Respond

----------------------------------------------------------------------------
(* GET /insiders over the OpenInsider screener (src/server.js:435-503), GET  *)
(* /insiders/parsed (src/unnamed/part_000:158-242) and GET /insiders over    *)
(* SEC EDGAR (src/server.js:225-311): the trades found are grouped by ticker *)
(* into clusters of buys and sells.  Tickers are texts that name no property *)
(* of Object.prototype.                                                      *)

\* the largest number of <tr> rows of a screener page, the header included
MaxRows == 4

\* .slice(0, 30) of the clusters, scaled so that the tickers of a page exceed it
ClusterCap == 2
\* trades.slice(0, 100), scaled so that the rows of a page exceed it
InsiderTrim == 2

\* a JavaScript number: a finite value or NaN
Num(n) == [nan |-> FALSE, n |-> n]
NaN    == [nan |-> TRUE, n |-> 0]
\* a * b and a < b on such numbers; every comparison with NaN is false
Times(a, b) == IF a.nan \/ b.nan THEN NaN ELSE Num(a.n * b.n)
Less(a, b)  == ~a.nan /\ ~b.nan /\ a.n < b.n

\* the decimal value of a sequence of digits
RECURSIVE DigitsValue(_)
DigitsValue(ds) ==
    IF ds = <<>> THEN 0
    ELSE 10 * DigitsValue(SubSeq(ds, 1, Len(ds) - 1))
         + ((CHOOSE d \in 0..9 : ToString(d) = ds[Len(ds)]))

\* parseFloat(s) for texts without sign, point or exponent: the value of the
\* leading digits, NaN when the text starts with none
parseFloat(s) ==
    LET stops == {i \in DOMAIN s : s[i] \notin Digit}
        k     == IF stops = {} THEN Len(s)
                 ELSE (CHOOSE i \in stops : \A j \in stops : i <= j) - 1
    IN IF k = 0 THEN NaN ELSE Num(DigitsValue(SubSeq(s, 1, k)))

\* s.replace(/[$,+]/g, '')
StripMoney(s) == SelectSeq(s, LAMBDA c : c \notin {"$", ",", "+"})

\* a || b
OrElse(a, b) == IF a # <<>> THEN a ELSE b

\* a row of the screener: its number of cells, the ticker cell, the cell of
\* the transaction type and the texts of cells[10] and cells[11]
Rows ==
    { [ncells |-> 12, ticker |-> <<"A","B">>, type |-> <<"P"," ","-"," ","P","u","r","c","h","a","s","e">>, cell10 |-> <<"5">>, cell11 |-> <<"+","$","1","0","0">>],
      [ncells |-> 12, ticker |-> <<"A","B">>, type |-> <<"S"," ","-"," ","S","a","l","e">>, cell10 |-> <<"5">>, cell11 |-> <<"1","0","0">>],
      [ncells |-> 12, ticker |-> <<"C">>,     type |-> <<"P"," ","-"," ","P","u","r","c","h","a","s","e">>, cell10 |-> <<"5">>, cell11 |-> <<"1","0","0">>],
      [ncells |-> 12, ticker |-> <<"7">>,     type |-> <<"S"," ","-"," ","S","a","l","e">>, cell10 |-> <<"5">>, cell11 |-> <<"1","0","0">>],
      [ncells |-> 12, ticker |-> <<>>,        type |-> <<"P"," ","-"," ","P","u","r","c","h","a","s","e">>, cell10 |-> <<"5">>, cell11 |-> <<"1","0","0">>],
      [ncells |-> 12, ticker |-> <<"C">>,     type |-> <<"S"," ","-"," ","S","a","l","e">>, cell10 |-> <<"5">>, cell11 |-> <<"1","0">>],
      [ncells |-> 9,  ticker |-> <<"C">>,     type |-> <<"S"," ","-"," ","S","a","l","e">>, cell10 |-> <<>>,    cell11 |-> <<>>],
      [ncells |-> 12, ticker |-> <<"C">>,     type |-> <<"S"," ","-"," ","S","a","l","e">>, cell10 |-> <<"5">>, cell11 |-> <<"N","/","A">>],
      [ncells |-> 12, ticker |-> <<"C">>,     type |-> <<"P"," ","-"," ","P","u","r","c","h","a","s","e">>, cell10 |-> <<"9","0">>, cell11 |-> <<>>] }

\* what the fetch of the screener brings: a thrown error or timeout, a
\* non-2xx status, a page without the table, or the rows of the page
ScreenerOutcomes ==
    { [kind |-> "throw", status |-> 0, rows |-> <<>>],
      [kind |-> "notok", status |-> 503, rows |-> <<>>],
      [kind |-> "notable", status |-> 200, rows |-> <<>>] }
    \cup { [kind |-> "rows", status |-> 200, rows |-> r] :
             r \in UNION { [1..n -> Rows] : n \in 0..MaxRows } }

\* the fewest cells of a row that is read
MinCells(h) == IF h = "parsed" THEN 11 ELSE 10

\* const value = parseFloat((cells[11] || cells[10] || '0').replace(/[$,+]/g,
\* '')) * 1000; /insiders/parsed reads cells[11] || '0'
RowValue(h, row) ==
    LET cell == IF h = "parsed" THEN OrElse(row.cell11, <<"0">>)
                ELSE OrElse(row.cell11, OrElse(row.cell10, <<"0">>))
    IN Times(parseFloat(StripMoney(cell)), Num(1000))

\* the same loop without the skip of the header
ScreenerTradesAll(h, rows) ==
    LET keep == {k \in DOMAIN rows :
                    /\ rows[k].ncells >= MinCells(h)
                    /\ ~Less(RowValue(h, rows[k]), Num(50000))}
        F[k \in 0..Len(rows)] ==
            IF k = 0 THEN <<>>
            ELSE IF k \in keep
                 THEN Append(F[k-1],
                             [date |-> k, ticker |-> rows[k].ticker,
                              value |-> RowValue(h, rows[k]),
                              type |-> IF startsWith(rows[k].type, <<"P">>)
                                       THEN Purchase ELSE Sale])
                 ELSE F[k-1]
    IN F[Len(rows)]

\* rows.forEach((row, idx) => { ... trades.push({ ... }) }): the header is
\* skipped, and so are short rows and rows worth less than 50000
ScreenerTrades(h, rows) ==
    LET keep == {k \in DOMAIN rows :
                    /\ k # 1
                    /\ rows[k].ncells >= MinCells(h)
                    /\ ~Less(RowValue(h, rows[k]), Num(50000))}
        F[k \in 0..Len(rows)] ==
            IF k = 0 THEN <<>>
            ELSE IF k \in keep
                 THEN Append(F[k-1],
                             [date |-> k, ticker |-> rows[k].ticker,
                              value |-> RowValue(h, rows[k]),
                              type |-> IF startsWith(rows[k].type, <<"P">>)
                                       THEN Purchase ELSE Sale])
                 ELSE F[k-1]
    IN F[Len(rows)]

\* if (!t.ticker) return; the /insiders/parsed handler has no such line
SkipsNoTicker(h) == h # "parsed"

\* the trades the clusters are built from
Clustered(h, trades) ==
    SelectSeq(trades, LAMBDA t : ~(SkipsNoTicker(h) /\ t.ticker = <<>>))

\* the tickers of the trades in the order of their first appearance
RECURSIVE FirstSeen(_, _)
FirstSeen(trades, seen) ==
    IF trades = <<>> THEN <<>>
    ELSE IF Head(trades).ticker \in seen THEN FirstSeen(Tail(trades), seen)
    ELSE <<Head(trades).ticker>>
         \o FirstSeen(Tail(trades), seen \cup {Head(trades).ticker})

\* a cluster that files every trade of the ticker under buys
ClusterAllBuys(tk, trades) ==
    [ticker |-> tk,
     buys   |-> SelectSeq(trades, LAMBDA t : t.ticker = tk),
     sells  |-> <<>>]

\* byTicker[ticker] after trades.forEach
Cluster(tk, trades) ==
    [ticker |-> tk,
     buys   |-> SelectSeq(trades, LAMBDA t : t.ticker = tk /\ t.type = Purchase),
     sells  |-> SelectSeq(trades, LAMBDA t : t.ticker = tk /\ t.type # Purchase)]

\* a property key that is an array index: the decimal text of an integer
IsArrayIndex(tk) ==
    /\ tk # <<>>
    /\ \A i \in DOMAIN tk : tk[i] \in Digit
    /\ Len(tk) = 1 \/ tk[1] # "0"

DigitSeq == <<"0","1","2","3","4","5","6","7","8","9">>

RECURSIVE IndexValue(_)
IndexValue(tk) ==
    IF tk = <<>> THEN 0
    ELSE 10 * IndexValue(SubSeq(tk, 1, Len(tk) - 1))
         + ((CHOOSE d \in DOMAIN DigitSeq : DigitSeq[d] = tk[Len(tk)]) - 1)

RECURSIVE InsertIndex(_, _)
InsertIndex(tk, s) ==
    IF s = <<>> THEN <<tk>>
    ELSE IF IndexValue(Head(s)) <= IndexValue(tk)
         THEN <<Head(s)>> \o InsertIndex(tk, Tail(s))
         ELSE <<tk>> \o s

RECURSIVE AscendingIndex(_)
AscendingIndex(s) ==
    IF s = <<>> THEN <<>>
    ELSE InsertIndex(s[Len(s)], AscendingIndex(SubSeq(s, 1, Len(s) - 1)))

\* the keys of an object as Object.values walks them: array indices in
\* ascending order, then the other keys in the order of insertion
PropertyOrder(keys) ==
    AscendingIndex(SelectSeq(keys, IsArrayIndex))
    \o SelectSeq(keys, LAMBDA k : ~IsArrayIndex(k))

\* Object.values(byTicker)
ObjectValues(h, trades) ==
    LET keys == PropertyOrder(FirstSeen(Clustered(h, trades), {}))
    IN [k \in DOMAIN keys |-> Cluster(keys[k], Clustered(h, trades))]

Total(g) == Len(g.buys) + Len(g.sells)

RECURSIVE InsertByCount(_, _)
InsertByCount(g, s) ==
    IF s = <<>> THEN <<g>>
    ELSE IF Total(Head(s)) >= Total(g) THEN <<Head(s)>> \o InsertByCount(g, Tail(s))
    ELSE <<g>> \o s

RECURSIVE SortByCountDesc(_)
\* .sort((a, b) => (b.buys.length + b.sells.length) - (a.buys.length +
\* a.sells.length)): largest first, clusters of one size keep their order
SortByCountDesc(s) ==
    IF s = <<>> THEN <<>>
    ELSE InsertByCount(s[Len(s)], SortByCountDesc(SubSeq(s, 1, Len(s) - 1)))

\* the clusters of the answer without the cut
AllSorted(h, trades) == SortByCountDesc(ObjectValues(h, trades))

\* const clustered = Object.values(byTicker).sort(...).slice(0, 30); the
\* edgar handler does not cut
ClusteredOf(h, trades) ==
    IF h = "edgar" THEN AllSorted(h, trades)
    ELSE Slice(AllSorted(h, trades), ClusterCap)

\* res.json({ success: true, count, source, trades, clustered })
InsiderSuccess(source, count, trades, clustered) ==
    [status |-> 200, success |-> TRUE, source |-> source, count |-> count,
     trades |-> trades, clustered |-> clustered, error |-> "", tried |-> <<>>]

InsiderIdle ==
    /\ ihandler = "none" /\ ipc = "idle" /\ itasks = <<>>
    /\ irows = <<>> /\ itrades = <<>> /\ iresp = NoResponse

\* the fetch of the screener page and all that follows it
FetchScreener ==
    /\ ihandler \in {"openinsider", "parsed"} /\ ipc = "fetch"
    /\ \E o \in ScreenerOutcomes :
          \E trades \in {ScreenerTrades(ihandler, o.rows)} :
             /\ irows' = o.rows
             /\ IF o.kind = "throw"
                THEN iresp' = Failure(500, "error") /\ UNCHANGED itrades
                ELSE IF o.kind = "notok"
                THEN iresp' = Failure(o.status, "OpenInsider returned") /\ UNCHANGED itrades
                ELSE IF o.kind = "notable" /\ ihandler = "openinsider"
                THEN /\ iresp' = Failure(500, "Could not find insider trades table")
                     /\ UNCHANGED itrades
                ELSE /\ itrades' = trades
                     /\ iresp' = InsiderSuccess("OpenInsider", Len(trades),
                                                Slice(trades, InsiderTrim),
                                                ClusteredOf(ihandler, trades))
    /\ ipc' = "done"
    /\ UNCHANGED <<ihandler, itasks, exceptInsider>>

\* the list CIKS, cut to its first two companies
CIKS == << [ticker |-> <<"N","V","D","A">>], [ticker |-> <<"A","A","P","L">>] >>

\* the largest number of filings the submissions of a company list
MaxForms == 3
\* recent.slice(0, 3), scaled so that the filings of a company exceed it
EdgarBatch == 2

\* a filing of the submissions: its form and whether its date lies before
\* the 30 day cutoff
Forms ==
    { [form |-> "4", old |-> FALSE], [form |-> "4", old |-> TRUE],
      [form |-> "8-K", old |-> FALSE] }

\* what the fetch of a company's submissions brings
SubmissionOutcomes ==
    { [kind |-> "throw", forms |-> <<>>], [kind |-> "notok", forms |-> <<>>] }
    \cup { [kind |-> "ok", forms |-> f] :
             f \in UNION { [1..n -> Forms] : n \in 0..MaxForms } }

\* forms.forEach((f, i) => { ... recent.push({ date, acc }) })
Recent(forms) == SelectSeq(forms, LAMBDA f : f.form = "4" /\ ~f.old)

\* a <nonDerivativeTransaction> of a Form 4: its transaction code and the
\* texts of its transactionShares and transactionPricePerShare tags
Txns ==
    { <<>>,
      << [code |-> "P", shares |-> <<"2","0","0">>, price |-> <<"1","0","0">>] >>,
      << [code |-> "S", shares |-> <<"2","0","0">>, price |-> <<"1","0","0">>],
         [code |-> "A", shares |-> <<"2","0","0">>, price |-> <<"1","0","0">>] >>,
      << [code |-> "P", shares |-> <<"5","0">>, price |-> <<"1","0","0">>] >>,
      << [code |-> "S", shares |-> <<"n","/","a">>, price |-> <<>>] >> }

\* const value = shares * price, each parseFloat(getB(tag) || '0')
TxnValue(x) ==
    Times(parseFloat(OrElse(x.shares, <<"0">>)), parseFloat(OrElse(x.price, <<"0">>)))

\* what the fetch of the XML of a Form 4 brings
FormOutcomes ==
    { [kind |-> "throw", txns |-> <<>>], [kind |-> "notok", txns |-> <<>>] }
    \cup { [kind |-> "ok", txns |-> t] : t \in Txns }

\* txns.forEach(txn => { ... allTrades.push({ ... }) }) for filing k of
\* company c
FormTrades(c, k, txns) ==
    LET keep == SelectSeq(txns, LAMBDA x :
                    ~Less(TxnValue(x), Num(10000)) /\ x.code \in {"P", "S"})
    IN [j \in DOMAIN keep |->
          [date |-> <<c, k>>, ticker |-> CIKS[c].ticker,
           value |-> TxnValue(keep[j]),
           type |-> IF keep[j].code = "P" THEN Purchase ELSE Sale]]

\* a fetch under way for filing k of a company: where it stands, how it
\* ended and the number of records it pushed
FormTask(pc, end, pushed) == [pc |-> pc, end |-> end, pushed |-> pushed]

InsiderInit ==
    /\ ihandler \in {"openinsider", "parsed", "edgar"} /\ ipc = "fetch"
    /\ itasks = IF ihandler = "edgar"
                THEN [c \in DOMAIN CIKS |-> [pc |-> "sub", forms |-> <<>>]]
                ELSE <<>>
    /\ irows = <<>> /\ itrades = <<>> /\ iresp = NoResponse

\* the fetch of the submissions of company c ends
FetchSubmissions ==
    /\ ihandler = "edgar" /\ ipc = "fetch"
    /\ \E c \in DOMAIN itasks : \E o \in SubmissionOutcomes :
          LET batch == Slice(Recent(o.forms), EdgarBatch)
          IN /\ itasks[c].pc = "sub"
             /\ itasks' = [itasks EXCEPT ![c] =
                   IF batch = <<>> THEN [pc |-> "done", forms |-> <<>>]
                   ELSE [pc |-> "forms",
                         forms |-> [k \in DOMAIN batch |-> FormTask("idx", "", 0)]]]
    /\ UNCHANGED <<ihandler, ipc, irows, itrades, iresp, exceptInsider>>

\* the fetch of the index of filing k of company c ends: a thrown error ends
\* the filing, any answer leads to the fetch of its XML
FetchFormIndex ==
    /\ ihandler = "edgar" /\ ipc = "fetch"
    /\ \E c \in DOMAIN itasks : \E k \in DOMAIN itasks[c].forms :
       \E thrown \in BOOLEAN :
          /\ itasks[c].forms[k].pc = "idx"
          /\ itasks' = [itasks EXCEPT ![c].forms[k] =
                IF thrown THEN FormTask("done", "throw", 0)
                ELSE FormTask("xml", "", 0)]
    /\ UNCHANGED <<ihandler, ipc, irows, itrades, iresp, exceptInsider>>

\* the fetch of the XML of filing k of company c ends
FetchFormXml ==
    /\ ihandler = "edgar" /\ ipc = "fetch"
    /\ \E c \in DOMAIN itasks : \E k \in DOMAIN itasks[c].forms :
       \E o \in FormOutcomes :
          \E pushed \in {FormTrades(c, k, o.txns)} :
             /\ itasks[c].forms[k].pc = "xml"
             /\ itrades' = itrades \o pushed
             /\ itasks' = [itasks EXCEPT ![c].forms[k] =
                              FormTask("done", o.kind, Len(pushed))]
    /\ UNCHANGED <<ihandler, ipc, irows, iresp, exceptInsider>>

\* the async function of company c has ended
CompanyDone(c) ==
    /\ itasks[c].pc # "sub"
    /\ \A k \in DOMAIN itasks[c].forms : itasks[c].forms[k].pc = "done"

\* Promise.all has resolved: cluster, answer
EdgarRespond ==
    /\ ihandler = "edgar" /\ ipc = "fetch"
    /\ \A c \in DOMAIN itasks : CompanyDone(c)
    /\ iresp' = InsiderSuccess("SEC EDGAR Form 4", Len(itrades), itrades,
                               ClusteredOf(ihandler, itrades))
    /\ ipc' = "done"
    /\ UNCHANGED <<ihandler, itasks, irows, itrades, exceptInsider>>

InsiderNext ==
    FetchScreener \/ FetchSubmissions \/ FetchFormIndex \/ FetchFormXml \/ EdgarRespond

----------------------------------------------------------------------------
(* The RSS tracker (src/unnamed/part_000:348-394, 541-574): GET /api/feeds   *)
(* and GET /api/narratives over the module-level feedCache.  Several         *)
(* requests are under way at once; each await lets the others run.           *)

\* the number of requests under way
MaxRequests == 2
\* the last reading of the clock
MaxClock == 4
\* Date.now() - feedCache.lastUpdated > 300000, in units of 150000 ms
CacheTtl == 2
\* lastUpdated: null
NeverUpdated == 0
\* articles.slice(0, 50)
FeedSlice == 50

\* the articles one run of fetchAllFeeds gathers from the feeds, sorted;
\* none when every feed fails
FeedPayloads == { <<>>, <<"a1">>, <<"a2", "a1">> }

\* let feedCache = { data: [], lastUpdated: null }
EmptyCache == [data |-> <<>>, lastUpdated |-> NeverUpdated]

NoFeedResponse ==
    [status |-> 0, success |-> FALSE, count |-> 0, articles |-> <<>>,
     narratives |-> <<>>, lastUpdated |-> NeverUpdated]

\* a request on arrival: the articles its own fetchAllFeeds returned, when
\* that fetch wrote the cache, and the argument of analyzeNarratives
FeedRequest(kind) ==
    [kind |-> kind, pc |-> "start", fetched |-> FALSE, own |-> <<>>,
     fetchedAt |-> NeverUpdated, arg |-> <<>>, resp |-> NoFeedResponse]

\* !feedCache.data.length || !feedCache.lastUpdated ||
\* Date.now() - feedCache.lastUpdated > 300000
Stale ==
    \/ Len(feedCache.data) = 0
    \/ feedCache.lastUpdated = NeverUpdated
    \/ now - feedCache.lastUpdated > CacheTtl

FeedIdle == feedCache = EmptyCache /\ now = 0 /\ freq = <<>>

FeedInit ==
    /\ feedCache = EmptyCache /\ now = 1
    /\ freq \in [1..MaxRequests -> {FeedRequest(k) : k \in {"feeds", "narratives"}}]

\* the handler runs up to its first await
Enter ==
    /\ \E r \in DOMAIN freq :
          /\ freq[r].pc = "start"
          /\ freq' = [freq EXCEPT ![r] =
                IF freq[r].kind = "feeds" \/ Stale
                THEN [@ EXCEPT !.pc = "fetch"]
                ELSE [@ EXCEPT !.pc = "analyze", !.arg = feedCache.data]]
    /\ UNCHANGED <<feedCache, now, exceptFeed>>

\* Promise.allSettled resolves in fetchAllFeeds: the cache is replaced
FetchAllFeeds ==
    /\ \E r \in DOMAIN freq : \E articles \in FeedPayloads :
          /\ freq[r].pc = "fetch"
          /\ feedCache' = [data |-> articles, lastUpdated |-> now]
          /\ freq' = [freq EXCEPT ![r] =
                [@ EXCEPT !.pc = "fetched", !.fetched = TRUE, !.own = articles,
                          !.fetchedAt = now]]
    /\ UNCHANGED <<now, exceptFeed>>

\* the handler goes on after  await fetchAllFeeds()
AfterFetch ==
    /\ \E r \in DOMAIN freq :
          /\ freq[r].pc = "fetched"
          /\ freq' = [freq EXCEPT ![r] =
                IF freq[r].kind = "feeds"
                THEN [@ EXCEPT !.pc = "done",
                               !.resp = [status |-> 200, success |-> TRUE,
                                         count |-> Len(freq[r].own),
                                         articles |-> Slice(freq[r].own, FeedSlice),
                                         narratives |-> <<>>,
                                         lastUpdated |-> feedCache.lastUpdated]]
                ELSE [@ EXCEPT !.pc = "analyze", !.arg = feedCache.data]]
    /\ UNCHANGED <<feedCache, now, exceptFeed>>

\* analyzeNarratives has returned: the narratives stand for the articles it
\* was given, the count is read from the cache as it is now
AnalyzeDone ==
    /\ \E r \in DOMAIN freq :
          /\ freq[r].pc = "analyze"
          /\ freq' = [freq EXCEPT ![r] =
                [@ EXCEPT !.pc = "done",
                          !.resp = [status |-> 200, success |-> TRUE,
                                    count |-> Len(feedCache.data),
                                    articles |-> <<>>,
                                    narratives |-> freq[r].arg,
                                    lastUpdated |-> feedCache.lastUpdated]]]
    /\ UNCHANGED <<feedCache, now, exceptFeed>>

\* time passes while a request is under way
Tick ==
    /\ \E r \in DOMAIN freq : freq[r].pc # "done"
    /\ now < MaxClock
    /\ now' = now + 1
    /\ UNCHANGED <<feedCache, freq, exceptFeed>>

FeedNext == Enter \/ FetchAllFeeds \/ AfterFetch \/ AnalyzeDone \/ Tick

----------------------------------------------------------------------------
(* Specifications, one per part of the program *)

ParseIdle == text = <<>> /\ parsed = <<>> /\ ppc = "idle"

\* parseTradesFromPdfText alone
InitParse == ParseInit /\ ChainIdle /\ FilingIdle /\ InsiderIdle /\ FeedIdle
SpecParse == InitParse /\ [][ParseNext]_vars

\* one request to /congress over the source chains
InitChain == ChainInit /\ ParseIdle /\ FilingIdle /\ InsiderIdle /\ FeedIdle
SpecChain == InitChain /\ [][ChainNext]_vars

\* one request to /congress over the filing index
InitFiling == FilingInit /\ ParseIdle /\ ChainIdle /\ InsiderIdle /\ FeedIdle
SpecFiling == InitFiling /\ [][FilingNext]_vars

\* one request to /insiders or /insiders/parsed
InitInsider == InsiderInit /\ ParseIdle /\ ChainIdle /\ FilingIdle /\ FeedIdle
SpecInsider == InitInsider /\ [][InsiderNext]_vars

\* requests to /api/feeds and /api/narratives under way at once
InitFeed == FeedInit /\ ParseIdle /\ ChainIdle /\ FilingIdle /\ InsiderIdle
SpecFeed == InitFeed /\ [][FeedNext]_vars

\* one request to any of the handlers; every fetch settles and every
\* continuation that can run does run
InitRequest == InitChain \/ InitFiling \/ InitInsider
RequestNext == ChainNext \/ FilingNext \/ InsiderNext
\* a step of the filing handlers can be taken: the index loop always goes on,
\* and during the batch either a pending filing ends or Promise.all resolves
FilingEnabled == fpc \in {"index", "fetch"}
\* weak fairness of FilingNext, with FilingEnabled for ENABLED <<FilingNext>>_vars
FairFiling == []<>(~FilingEnabled) \/ []<><<FilingNext>>_vars
\* a step of the insider handlers can be taken: the screener fetch settles,
\* and in the EDGAR handler a fetch is under way or Promise.all resolves
InsiderEnabled == ipc = "fetch"
\* weak fairness of InsiderNext, with InsiderEnabled for ENABLED <<InsiderNext>>_vars;
\* the steps of RequestNext that change insiderVars are those of InsiderNext
FairInsider == []<>(~InsiderEnabled) \/ []<><<TRUE>>_insiderVars
SpecRequest ==
    /\ InitRequest /\ [][RequestNext]_vars
    /\ WF_vars(ChainNext) /\ FairInsider /\ FairFiling

----------------------------------------------------------------------------
(* Properties of parseTradesFromPdfText, checked under SpecParse *)

Triple(t) == <<t.ticker, t.type, t.amount>>

\* the tokens of the text
TextTokens == {Flatten(text)[k] : k \in DOMAIN Flatten(text)}

\* s restricted to the indices in keep, in order
RECURSIVE Pick(_, _, _)
Pick(s, keep, i) ==
    IF i > Len(s) THEN <<>>
    ELSE (IF i \in keep THEN <<s[i]>> ELSE <<>>) \o Pick(s, keep, i + 1)

\* the first occurrence of each distinct triple of s, in first-seen order
FirstOccurrences(s) ==
    Pick(s, {i \in DOMAIN s : \A j \in 1..(i - 1) : Triple(s[j]) # Triple(s[i])}, 1)

IsTickerShape(tk) == Len(tk) >= 1 /\ Len(tk) <= 5 /\ AllIn(tk, Upper)

\* C6: every record of the extractor has a ticker that is the sentinel "?" or
\* one to five upper-case letters A-Z, whatever the text.
C6_TickerShape ==
    ppc = "done" =>
        \A i \in DOMAIN parsed :
            parsed[i].ticker = Sentinel \/ IsTickerShape(parsed[i].ticker)

\* C7: the extractor never binds a transaction to a denylisted parenthetical
\* code: a returned ticker of the denylist was not read from a parenthesised
\* token, and "(IRA) P 01/01/2025 01/02/2025 $1,000" yields no trade.
C7_NoDenylistedBinding ==
    ppc = "done" =>
        /\ \A i \in DOMAIN parsed :
              parsed[i].ticker \in Denylist =>
                  (<<"(">> \o parsed[i].ticker \o <<")">>) \notin TextTokens
        /\ (text = <<LineIRA>> => parsed = <<>>)

\* C8: "(WAT) [ST] P 12/08/2025 01/01/2026 $1,001 - $15,000" yields exactly
\* one trade, ticker WAT, type Purchase, amount "$1,001 - $15,000", although
\* the line scan and the block pattern both fire on the line.
C8_LiteralWAT ==
    (ppc = "done" /\ text = <<LineWAT>>) =>
        /\ Len(parsed) = 1
        /\ parsed[1].ticker = <<"W","A","T">>
        /\ parsed[1].type = Purchase
        /\ parsed[1].amount = TokAmt1 \o <<" ","-"," ">> \o TokAmt2
        /\ Len(Strategy1(text)) = 1 /\ Len(Strategy2(text)) = 1

C8_Witness == ppc = "done" /\ text = <<LineWAT>> /\ Len(parsed) = 1

C10_NoDuplicateTriple ==
    ppc = "done" =>
        \A i, j \in DOMAIN parsed : i # j => Triple(parsed[i]) # Triple(parsed[j])

C10_Witness ==
    /\ ppc = "done"
    /\ Strategy1(text) # <<>> /\ Strategy2(text) # <<>>
    /\ \E i \in DOMAIN Strategy1(text) : \E j \in DOMAIN Strategy2(text) :
          Triple(Strategy1(text)[i]) = Triple(Strategy2(text)[j])
    /\ Len(parsed) < Len(RawTrades(text))

\* C11: the deduplication step applied to its own output removes nothing and
\* returns the same sequence in the same order.
C11_DedupIdempotent ==
    ppc = "done" => Dedup(parsed) = parsed

\* the step removed a record and left more than one
C11_Witness ==
    /\ ppc = "done"
    /\ Len(parsed) >= 2
    /\ Len(parsed) < Len(RawTrades(text))
    /\ Dedup(parsed) = parsed

\* the state of the line scan after its first n lines
RECURSIVE ScanAfter(_, _)
ScanAfter(lines, n) ==
    IF n = 0 THEN Scan0 ELSE ScanLine(ScanAfter(lines, n - 1), lines, n)

\* the lines up to line n that the scan reads and that carry a ticker marker
MarkerLines(lines, n) ==
    {j \in 1..n : /\ ~(StrLen(lines[j]) < 3 \/ IsNoise(lines[j]))
                  /\ TickerMatch(lines[j]) # <<>>}

\* the line scan pushes a trade at line n
EmitsAt(lines, n) ==
    Len(ScanAfter(lines, n).trades) = Len(ScanAfter(lines, n - 1).trades) + 1

\* C24: a trade pushed by the line scan carries the ticker of the last marker
\* read up to its line, and after the push the current ticker is still that
\* ticker while the pending type is cleared.
C24_TickerKeptAfterEmit ==
    ppc = "done" =>
        \A n \in DOMAIN text :
            EmitsAt(text, n) =>
               LET after == ScanAfter(text, n)
                   ms    == MarkerLines(text, n)
                   last  == CHOOSE j \in ms : \A k \in ms : k <= j
               IN /\ ms # {}
                  /\ after.trades[Len(after.trades)].ticker = TickerMatch(text[last])
                  /\ after.ticker = TickerMatch(text[last])
                  /\ after.type = <<>>

\* two trades pushed at different lines with no marker on the lines after
\* the first, both bound to the same ticker
C24_Witness ==
    /\ ppc = "done"
    /\ \E m, n \in DOMAIN text :
          /\ m < n /\ EmitsAt(text, m) /\ EmitsAt(text, n)
          /\ MarkerLines(text, n) = MarkerLines(text, m)
          /\ LET a == ScanAfter(text, m).trades
                 b == ScanAfter(text, n).trades
             IN a[Len(a)].ticker = b[Len(b)].ticker

\* C23: the loose grammar of Strategy 2 contributes no record when the line
\* scan of Strategy 1 found a trade: the result is then the filtered result
\* of the line scan alone.
C23_LooseOnlyAsFallback ==
    (ppc = "done" /\ Strategy1(text) # <<>>) =>
        parsed = Dedup(Strategy1(text))

----------------------------------------------------------------------------
(* Properties of the /congress source chains, checked under SpecChain *)

Enumerated == {Purchase, Sale, Exchange, Unknown}

\* the fetches that yielded at least one record
Supplying == {i \in DOMAIN calls : calls[i].batch # <<>>}

C3_SourceNamesSupplier ==
    cpc = "done" =>
        \A i, j \in DOMAIN calls :
            ( /\ i < j
              /\ calls[i].kind \in {"throw", "notok"}
              /\ Supplying = {j} )
            => (cresp.success /\ cresp.source = calls[j].source)

\* C5: every record of a response has a transaction type among Purchase,
\* Sale, Exchange and Unknown.
C5_TransactionEnumerated ==
    \A k \in DOMAIN cresp.trades : cresp.trades[k].Transaction \in Enumerated

\* every source of the endpoint was asked and none yielded a record
Exhausted ==
    /\ cpc = "done"
    /\ \A i \in DOMAIN calls : calls[i].batch = <<>>

\* C15: when every source of the endpoint yielded no record, the one answer
\* has a status outside 200..299 and names, in `tried`, the sources that were
\* attempted.
C15_ExhaustionEnumerates ==
    Exhausted =>
        /\ cresp.status >= 300
        /\ cresp.tried = [i \in DOMAIN calls |-> calls[i].source]

----------------------------------------------------------------------------
(* Properties of the handlers over the filing index *)

Answered == fpc = "done" /\ fresp.success

\* every detail fetch of the batch failed
AllDetailFailed == \A i \in DOMAIN detail : detail[i].kind \in {"throw", "notok"}

\* the records of the answer that stand for the filing
RecordsOf(filing) ==
    {m \in DOMAIN fresp.trades : fresp.trades[m].Representative = filing.name}

IsPlaceholderOf(r, filing) ==
    /\ r.Representative = filing.name /\ r.Ticker = Sentinel /\ r.Date = filing.date

\* C2 as stated: when every detail fetch fails, the answer holds as many
\* records as filings were discovered, one placeholder with ticker "?" each.
C2_PlaceholderPerFiling ==
    Answered /\ AllDetailFailed =>
        /\ fresp.count = Len(filings)
        /\ \A i \in DOMAIN filings :
              /\ Cardinality(RecordsOf(filings[i])) = 1
              /\ \A m \in RecordsOf(filings[i]) :
                    IsPlaceholderOf(fresp.trades[m], filings[i])

\* C2 amended: when every detail fetch fails, the answer holds one placeholder
\* with ticker "?" for each filing of the batch, the first filings discovered
\* up to the batch limit, and nothing else.
C2_PlaceholderPerBatchedFiling ==
    LET limit == IF fhandler = "pdf" THEN PdfBatch ELSE XmlBatch
        n     == IF Len(filings) < limit THEN Len(filings) ELSE limit
    IN Answered /\ AllDetailFailed =>
          /\ fresp.count = n
          /\ Len(fresp.trades) = n
          /\ \A i \in 1..n :
                /\ Cardinality(RecordsOf(filings[i])) = 1
                /\ \A m \in RecordsOf(filings[i]) :
                      IsPlaceholderOf(fresp.trades[m], filings[i])

\* every detail fetch failed for an index longer than the batch limit
C2_Witness ==
    /\ Answered /\ AllDetailFailed
    /\ Len(filings) > BatchLimit(fhandler)
    /\ \E i \in DOMAIN detail : i \in Fetched(fhandler, filings)

\* the arrays after the async functions of filings k..Len(batch) end in the
\* order of the batch
RECURSIVE InOrder(_, _, _, _, _)
InOrder(h, batch, d, k, acc) ==
    IF k > Len(batch) THEN acc
    ELSE IF k \notin Fetched(h, batch) THEN InOrder(h, batch, d, k + 1, acc)
    ELSE LET p == Pushed(h, batch[k], d[k])
         IN InOrder(h, batch, d, k + 1,
                    [allTrades |-> acc.allTrades \o p.allTrades,
                     filingsMeta |-> acc.filingsMeta \o p.filingsMeta])

\* the answer when the detail fetches end in the order of the batch
InOrderAnswer ==
    LET batch == Slice(filings, BatchLimit(fhandler))
        start == [allTrades |-> IF fhandler = "pdf" THEN <<>>
                                ELSE NoDocPlaceholders(batch),
                  filingsMeta |-> <<>>]
        end   == InOrder(fhandler, batch, detail, 1, start)
    IN Assembled(fhandler, end.allTrades, end.filingsMeta)

\* C4: for the same upstream responses the trades of the answer, their order
\* and the records that survive the trim, are those of any other order in
\* which the detail fetches end.
C4_OrderIndependent ==
    Answered => fresp.trades = InOrderAnswer.trades

\* C17: once the index scan has found a filing, /congress answers with
\* success and at least one record, never with an error.
C17_FilingFoundNeverError ==
    (fpc = "done" /\ filings # <<>>) =>
        fresp.success /\ Len(fresp.trades) >= 1

\* C19: a failed fetch of the index of the first year, thrown or non-2xx, is
\* recovered: the handler goes on to the next year and does not end the
\* request with an error.
C19_IndexFailureRecovered ==
    [][(fpc = "index" /\ fyear = 1) => ~(fpc' = "done" /\ ~fresp'.success)]_vars

----------------------------------------------------------------------------
(* Properties of the /insiders handlers, checked under SpecInsider *)

InsiderAnswered == ipc = "done" /\ iresp.success

\* the ticker that stands for an unknown ticker: the empty text of a
\* screener cell, or "?"
IsUnknownTicker(tk) == tk = <<>> \/ tk = Sentinel

\* the positions of trade t in the lists of cluster g
PlacesIn(g, t) ==
    {<<"buys", m>> : m \in {n \in DOMAIN g.buys : g.buys[n] = t}}
    \cup {<<"sells", m>> : m \in {n \in DOMAIN g.sells : g.sells[n] = t}}

\* the positions of trade t in the clusters of the answer
Places(t) ==
    UNION { {<<k, q>> : q \in PlacesIn(iresp.clustered[k], t)} :
              k \in DOMAIN iresp.clustered }

\* buys and sells summed over the clusters of the answer
RECURSIVE SumTotals(_)
SumTotals(s) == IF s = <<>> THEN 0 ELSE Total(Head(s)) + SumTotals(Tail(s))

KnownTrades == {k \in DOMAIN itrades : ~IsUnknownTicker(itrades[k].ticker)}

FirstAt(tk) ==
    CHOOSE k \in DOMAIN itrades :
        /\ itrades[k].ticker = tk
        /\ \A j \in 1..(k - 1) : itrades[j].ticker # tk

\* C13: the clusters of the answer are ordered by buys + sells, largest
\* first, and clusters of one size stand in the order in which their tickers
\* first appear in the trades.
C13_SortedStable ==
    InsiderAnswered =>
        \A i, j \in DOMAIN iresp.clustered :
            i < j =>
               /\ Total(iresp.clustered[i]) >= Total(iresp.clustered[j])
               /\ Total(iresp.clustered[i]) = Total(iresp.clustered[j]) =>
                     FirstAt(iresp.clustered[i].ticker) < FirstAt(iresp.clustered[j].ticker)

\* C14: no cluster of the answer holds a trade with an unknown ticker, and
\* every such trade stands in the flat list of the answer.
C14_SentinelNotClustered ==
    InsiderAnswered =>
        /\ \A i \in DOMAIN iresp.clustered :
              /\ ~IsUnknownTicker(iresp.clustered[i].ticker)
              /\ \A m \in DOMAIN iresp.clustered[i].buys :
                    ~IsUnknownTicker(iresp.clustered[i].buys[m].ticker)
              /\ \A m \in DOMAIN iresp.clustered[i].sells :
                    ~IsUnknownTicker(iresp.clustered[i].sells[m].ticker)
        /\ \A k \in DOMAIN itrades :
              IsUnknownTicker(itrades[k].ticker) =>
                 \E m \in DOMAIN iresp.trades : iresp.trades[m] = itrades[k]

----------------------------------------------------------------------------
(* Properties of every request, checked under SpecRequest *)

\* the answer of the request, if one was sent
Response ==
    IF handler # "none" THEN cresp
    ELSE IF fhandler # "none" THEN fresp
    ELSE iresp

Responded == Response # NoResponse

\* C16: every request is answered in the end, whatever its fetches bring and
\* in whatever order they end, and once answered its answer is never sent
\* again or replaced.
C16_ExactlyOneResponse ==
    /\ <>Responded
    /\ [][Responded => Response' = Response]_vars

\* an answer was sent after fetches that ended in different ways, or after
\* every source had failed
C16_Witness ==
    /\ Responded
    /\ \/ /\ ihandler = "edgar"
          /\ \E c \in DOMAIN itasks : \E j, k \in DOMAIN itasks[c].forms :
                itasks[c].forms[j].end = "throw" /\ itasks[c].forms[k].end = "ok"
       \/ /\ handler = "attempts" /\ Len(calls) = Len(Attempts) + 1
          /\ \A i \in DOMAIN calls : calls[i].kind = "throw"

\* the filings of the batch whose async function has ended
Ended == {i \in DOMAIN detail : i \in Fetched(fhandler, filings) /\ i \notin pending}

\* the detail of filing i failed: no answer, a non-2xx answer, or a document
\* from which no trade is extracted
DetailFailed(i) ==
    \/ detail[i].kind \in {"throw", "notok"}
    \/ detail[i].kind = "text" /\ parseTradesFromPdfText(detail[i].text) = <<>>
    \/ detail[i].kind = "blocks" /\ detail[i].blocks = <<>>

\* the records the arrays hold for filing i, in the order of their push
OwnRecords(i) ==
    SelectSeq(allTrades \o filingsMeta,
              LAMBDA r : r.Representative = filings[i].name)

\* what the filings of /congress contribute, whatever the order in which
\* their fetches end: a failed filing one placeholder, any other filing the
\* records extracted from it; and the batch once begun ends in success
CongressContributions ==
    fpc \in {"fetch", "done"} =>
        /\ \A i \in Ended :
              IF DetailFailed(i)
              THEN /\ Len(OwnRecords(i)) = 1
                   /\ IsPlaceholderOf(OwnRecords(i)[1], filings[i])
              ELSE /\ OwnRecords(i) = Pushed(fhandler, filings[i], detail[i]).allTrades
                   /\ Len(OwnRecords(i)) >= 1
        /\ fpc = "done" /\ detail # <<>> => fresp.success /\ pending = {}

\* the Form 4 filings of /insiders whose async function has ended
FormsEnded ==
    {ck \in (DOMAIN itasks) \X (1..EdgarBatch) :
        /\ ck[2] \in DOMAIN itasks[ck[1]].forms
        /\ itasks[ck[1]].forms[ck[2]].pc = "done"}

FormFailed(ck) == itasks[ck[1]].forms[ck[2]].end \in {"throw", "notok"}

\* the trades allTrades holds for filing k of company c
FormRecords(ck) == SelectSeq(itrades, LAMBDA t : t.date = ck)

\* C18 as stated: a failed filing contributes exactly one placeholder record,
\* in /congress and in /insiders alike, every sibling contributes its own
\* records, and the request is not aborted.
C18_PlaceholderPerFailedFiling ==
    /\ CongressContributions
    /\ ihandler = "edgar" =>
          /\ \A ck \in FormsEnded :
                Len(FormRecords(ck)) = IF FormFailed(ck) THEN 1
                                       ELSE itasks[ck[1]].forms[ck[2]].pushed
          /\ ipc = "done" => iresp.success

\* C18 amended: in /congress a failed filing contributes exactly one
\* placeholder; in /insiders a failed Form 4 contributes no record at all; in
\* both every sibling contributes its own records and the request ends in
\* success.
C18_FailedFilingIsolated ==
    /\ CongressContributions
    /\ ihandler = "edgar" =>
          /\ \A ck \in FormsEnded :
                /\ Len(FormRecords(ck)) = itasks[ck[1]].forms[ck[2]].pushed
                /\ FormFailed(ck) => FormRecords(ck) = <<>>
          /\ ipc = "done" =>
                /\ iresp.success
                /\ \A c \in DOMAIN itasks : CompanyDone(c)

\* a batch answered in which one filing failed and a sibling contributed
\* records of its own
C18_Witness ==
    /\ fhandler = "pdf" /\ fpc = "done" /\ fresp.success
    /\ \E i, j \in Ended :
          /\ detail[i].kind = "throw" /\ Len(OwnRecords(i)) = 1
          /\ ~DetailFailed(j) /\ Len(OwnRecords(j)) >= 1

----------------------------------------------------------------------------
(* Properties of the RSS tracker, checked under SpecFeed *)

\* C20: no state is shared between requests: the answer to a request is made
\* of the articles fetched while handling that request and of nothing else,
\* in every interleaving with other requests, and once every request is
\* answered nothing of them is left in the cache.
C20_NoSharedState ==
    /\ \A r \in DOMAIN freq :
          freq[r].pc = "done" =>
             /\ freq[r].fetched
             /\ freq[r].resp.count = Len(freq[r].own)
             /\ freq[r].resp.lastUpdated = freq[r].fetchedAt
             /\ freq[r].kind = "narratives" => freq[r].resp.narratives = freq[r].own
    /\ (freq # <<>> /\ \A r \in DOMAIN freq : freq[r].pc = "done") =>
          feedCache = EmptyCache

\* /api/narratives fetches exactly when the cache is stale, and otherwise
\* hands the cached articles to analyzeNarratives and leaves the cache alone
FetchesWhenStale ==
    \A r \in DOMAIN freq :
        (freq[r].kind = "narratives" /\ freq[r].pc = "start" /\ freq'[r].pc # "start") =>
            /\ freq'[r].pc = "fetch" <=> Stale
            /\ ~Stale => /\ freq'[r].pc = "analyze"
                          /\ freq'[r].arg = feedCache.data
                          /\ feedCache' = feedCache

\* the cache changes only when a fetchAllFeeds ends, and then to the articles
\* and the time of that fetch
ReplacedAsAWhole ==
    feedCache' # feedCache =>
        \E r \in DOMAIN freq :
            /\ freq[r].pc = "fetch" /\ freq'[r].pc = "fetched"
            /\ feedCache' = [data |-> freq'[r].own, lastUpdated |-> freq'[r].fetchedAt]

\* the answer of /api/narratives r pairs the articles of one fetch with the
\* count and the time of the same fetch
FromOneFetch(r) ==
    \E q \in DOMAIN freq :
        /\ freq[q].fetched
        /\ freq[r].resp.narratives = freq[q].own
        /\ freq[r].resp.count = Len(freq[q].own)
        /\ freq[r].resp.lastUpdated = freq[q].fetchedAt

\* C30: /api/narratives calls fetchAllFeeds exactly when the cache is empty,
\* was never filled or is older than the time to live, and otherwise answers
\* from the cached articles without fetching; every fetchAllFeeds that ends
\* replaces data and lastUpdated together; and no request, whatever runs
\* beside it, answers with the articles of one fetch and the time of another.
C30_CacheConsistent ==
    /\ [][FetchesWhenStale /\ ReplacedAsAWhole]_vars
    /\ [](\A r \in DOMAIN freq :
             (freq[r].kind = "narratives" /\ freq[r].pc = "done") => FromOneFetch(r))

----------------------------------------------------------------------------
(* Further properties of the requests, checked under SpecRequest *)

\* C21: no fetch is issued again: every fetch of the source chains goes to a
\* source not asked before in the request, a filing whose async function has
\* ended is never pending again, and a filing that failed has its
\* placeholder in the arrays at the step in which it ends.
C21_NoRetry ==
    [][/\ calls' # calls =>
            /\ Len(calls') = Len(calls) + 1
            /\ SubSeq(calls', 1, Len(calls)) = calls
            /\ \A i \in DOMAIN calls : calls[i].source # calls'[Len(calls')].source
       /\ fpc = "fetch" => pending' \subseteq pending
       /\ fpc = "fetch" =>
            \A i \in pending \ pending' :
               DetailFailed(i) =>
                  /\ Len(OwnRecords(i)) = 0
                  /\ Len(OwnRecords(i)') = 1
                  /\ IsPlaceholderOf(OwnRecords(i)'[1], filings[i])]_vars

\* a source failed with a thrown error and the next source was asked
C21_Witness ==
    /\ handler = "attempts" /\ Len(calls) >= 2
    /\ calls[1].kind = "throw" /\ calls[2].source # calls[1].source

C28_CountIsLength ==
    (Responded /\ Response.success) => Response.count = Len(Response.trades)

\* the records of filing i in the array allTrades and in the array filingsMeta
TradesOf(i) == SelectSeq(allTrades, LAMBDA r : r.Representative = filings[i].name)
MetaOf(i)   == SelectSeq(filingsMeta, LAMBDA r : r.Representative = filings[i].name)

\* C29: once the batch of the PDF handler has ended, every filing of the batch
\* has either one or more trades in allTrades or exactly one placeholder in
\* filingsMeta, never both and never neither, in whatever order the fetches
\* ended; so count is withTickers plus the number of placeholders, and there
\* are at most as many placeholders as the batch has filings.
C29_TradesOrPlaceholder ==
    (fhandler = "pdf" /\ fpc \in {"fetch", "done"} /\ detail # <<>> /\ pending = {}) =>
        /\ \A i \in DOMAIN detail :
              \/ Len(TradesOf(i)) >= 1 /\ MetaOf(i) = <<>>
              \/ TradesOf(i) = <<>> /\ Len(MetaOf(i)) = 1
                 /\ IsPlaceholderOf(MetaOf(i)[1], filings[i])
        /\ Len(filingsMeta) <= Len(detail) /\ Len(detail) <= PdfBatch
        /\ Len(filingsMeta) = Cardinality({i \in DOMAIN detail : MetaOf(i) # <<>>})
        /\ fpc = "done" =>
              /\ fresp.success
              /\ fresp.withTickers = Len(allTrades)
              /\ fresp.count = fresp.withTickers + Len(filingsMeta)
\* a batch answered in which one filing gave trades and another a placeholder
C29_Witness ==
    /\ fhandler = "pdf" /\ fpc = "done" /\ Len(detail) = PdfBatch
    /\ \E i, j \in DOMAIN detail :
          /\ Len(TradesOf(i)) >= 2 /\ MetaOf(i) = <<>>
          /\ TradesOf(j) = <<>> /\ Len(MetaOf(j)) = 1
    /\ fresp.count = fresp.withTickers + 1

----------------------------------------------------------------------------
(* Properties of the XML-detail handler, checked under SpecFiling *)

\* the values that stand for an unknown field
UnknownValues == {Sentinel, Undisclosed}

\* C25: each record mapped from a <Transaction> block takes for ticker,
\* amount and type the first non-empty tag among the synonyms of the field,
\* and a field none of whose tags is present is set to an unknown value, not
\* to a concrete one; the record is pushed all the same.
C25_AbsentFieldIsUnknown ==
    fhandler = "xml" =>
        \A i \in Ended :
            (detail[i].kind = "blocks" /\ detail[i].blocks # <<>>) =>
               /\ Len(OwnRecords(i)) = Len(detail[i].blocks)
               /\ \A k \in DOMAIN detail[i].blocks :
                     LET b == detail[i].blocks[k]
                         r == OwnRecords(i)[k]
                     IN /\ IF b.ticker # <<>> THEN r.Ticker = CleanTicker(b.ticker)
                           ELSE IF b.assetCode # <<>> THEN r.Ticker = CleanTicker(b.assetCode)
                           ELSE r.Ticker \in UnknownValues
                        /\ IF b.amount # <<>> THEN r.Amount = b.amount
                           ELSE r.Amount \in UnknownValues
                        /\ b.type = <<>> => r.Transaction \notin {Purchase, Sale}

----------------------------------------------------------------------------
(* Properties of the extractors of /insiders, checked under SpecInsider *)

\* the least value of a record of the handler
MinValue(h) == IF h = "edgar" THEN 10000 ELSE 50000

\* C26: every record pushed by the row loop of the screener handlers has a
\* numeric value of at least 50000, and every record pushed by the Form 4
\* loop a numeric value of at least 10000, whatever the cells and tags hold.
C26_ValueAtLeastMinimum ==
    \A k \in DOMAIN itrades :
        /\ ~itrades[k].value.nan
        /\ itrades[k].value.n >= MinValue(ihandler)

\* the records of itrades that row k of the page gave
RowRecords(k) == SelectSeq(itrades, LAMBDA t : t.date = k)

\* what row k gives when it stands alone under the header
AloneRecords(k) ==
    [j \in DOMAIN ScreenerTrades(ihandler, <<irows[1], irows[k]>>) |->
        [ScreenerTrades(ihandler, <<irows[1], irows[k]>>)[j] EXCEPT !.date = k]]

\* a row that would be read, were it not for its place
Readable(row) ==
    /\ row.ncells >= MinCells(ihandler)
    /\ ~Less(RowValue(ihandler, row), Num(50000))

\* C27: in the row loop of the screener handlers the first row never gives a
\* record, a row with fewer cells than the minimum gives none and raises no
\* error, and every other row gives what it gives alone, in the order of the
\* rows.
C27_HeaderAndShortRowsSkipped ==
    (ihandler \in {"openinsider", "parsed"} /\ ipc = "done" /\ irows # <<>>) =>
        /\ iresp.success /\ iresp.status = 200
        /\ RowRecords(1) = <<>>
        /\ \A k \in DOMAIN irows :
              irows[k].ncells < MinCells(ihandler) => RowRecords(k) = <<>>
        /\ \A k \in DOMAIN irows : k # 1 => RowRecords(k) = AloneRecords(k)
        /\ \A k \in DOMAIN itrades : itrades[k].date \in DOMAIN irows
        /\ \A k \in DOMAIN itrades :
              k > 1 => itrades[k-1].date < itrades[k].date
C27_Witness ==
    /\ ihandler \in {"openinsider", "parsed"} /\ ipc = "done"
    /\ Len(irows) = 4
    /\ Readable(irows[1])
    /\ Readable(irows[2])
    /\ irows[3].ncells < MinCells(ihandler)
    /\ Readable(irows[4])
    /\ Len(itrades) = 2

====
